---- MODULE Spec2Model ----
(***************************************************************************)
(* Model of the api-client crate (src/lib.rs): the Api trait with its two  *)
(* hooks, the request pipeline Api::request, and the methods the api!      *)
(* macro generates, for both builds (with and without the "middleware"      *)
(* feature).  The reqwest transport, serde codecs and the Rust compiler    *)
(* are modelled at the boundary where lib.rs calls them.                   *)
(***************************************************************************)
EXTENDS Integers, Sequences, FiniteSets, TLC

VARIABLES
    feature,   \* the build: [middleware: BOOLEAN]
    impl,      \* the client type: which trait items it overrides
    pc,        \* "init" | "idle" | "sending" | "reading" | "done" | "panicked"
    client,    \* the instance: [handle, cookie]; handle 0 before new()
    call,      \* the call in progress or last finished
    result,    \* what the last call returned
    trace,     \* the pipeline events of the current call, in order
    wire,      \* the requests the transport saw in the current call
    owner      \* the callers whose call in progress borrows the instance

vars == <<feature, impl, pc, client, call, result, trace, wire, owner>>

----------------------------------------------------------------------------
(* Bounds *)

\* largest id used as a URL parameter and in payloads
MaxId == 1

----------------------------------------------------------------------------
(* Values *)

Ids == 1..MaxId

\* the payload / result type T of the declarations (tests::example::Todo,
\* cut down to one number and one flag)
Todos == [id : 0..MaxId, completed : BOOLEAN]

NoTodo == [id |-> 0, completed |-> FALSE]

\* payloads a caller passes: values of T, or a value whose Serialize fails
Payloads == [ser : {TRUE}, v : [id : Ids, completed : BOOLEAN]]
            \cup {[ser |-> FALSE, v |-> NoTodo]}

NoPayload == [ser |-> TRUE, v |-> NoTodo]

\* Display for u32 and bool, as format! and the codecs print them
DisplayU32(n) == <<"0", "1", "2", "3", "4", "5", "6", "7", "8", "9">>[n + 1]

DisplayBool(b) == IF b THEN "true" ELSE "false"

\* serde_json::to_vec for T, as the sequence of JSON tokens
ToJson(v) == <<"{", "id", ":", DisplayU32(v.id), ",",
               "completed", ":", DisplayBool(v.completed), "}">>

\* serde_urlencoded::to_string for T
ToForm(v) == <<"id", "=", DisplayU32(v.id), "&",
               "completed", "=", DisplayBool(v.completed)>>

IsU32(tok) == \E n \in 0..9 : DisplayU32(n) = tok

ParseU32(tok) == CHOOSE n \in 0..9 : DisplayU32(n) = tok

IsBool(tok) == tok \in {"true", "false"}

\* serde_json::from_slice::<T>: a JSON object with exactly the fields id and
\* completed, in either order; anything else is an error
FromJson(s) ==
    LET syntax == /\ Len(s) = 9
                  /\ s[1] = "{" /\ s[3] = ":" /\ s[5] = ","
                  /\ s[7] = ":" /\ s[9] = "}"
        fields == IF syntax THEN {<<s[2], s[4]>>, <<s[6], s[8]>>} ELSE {}
        idf    == {f \in fields : f[1] = "id"}
        cof    == {f \in fields : f[1] = "completed"}
        good   == /\ syntax
                  /\ s[2] # s[6]
                  /\ Cardinality(idf) = 1 /\ Cardinality(cof) = 1
                  /\ \A f \in idf : IsU32(f[2])
                  /\ \A f \in cof : IsBool(f[2])
    IN  IF good
        THEN [ok |-> TRUE,
              v  |-> [id        |-> ParseU32((CHOOSE f \in idf : TRUE)[2]),
                      completed |-> (CHOOSE f \in cof : TRUE)[2] = "true"]]
        ELSE [ok |-> FALSE, v |-> NoTodo]

----------------------------------------------------------------------------
(* Errors: ClientError of the build *)

NoErr == [variant |-> "none", kind |-> "none"]

ReqwestKinds == {"builder", "request", "body", "decode"}

\* reqwest::Error
ReqwestErrors == [variant : {"reqwest"}, kind : ReqwestKinds]

\* reqwest_middleware::Error = Middleware(anyhow::Error) | Reqwest(reqwest::Error)
MiddlewareErrors == [variant : {"Reqwest"}, kind : ReqwestKinds]
                    \cup {[variant |-> "Middleware", kind |-> "anyhow"]}

ClientError(mw) == IF mw THEN MiddlewareErrors ELSE ReqwestErrors

\* reqwest_middleware::Error::from(reqwest::Error)
ErrorFrom(e) == [variant |-> "Reqwest", kind |-> e.kind]

\* a reqwest::Error as the build's own send path hands it out
Lift(mw, e) == IF mw THEN ErrorFrom(e) ELSE e

ReqErr(kind) == [variant |-> "reqwest", kind |-> kind]

----------------------------------------------------------------------------
(* Requests: reqwest's RequestBuilder as lib.rs uses it *)

NoBody == [kind |-> "none", bytes |-> <<>>]

BASE_URL == "https://jsonplaceholder.typicode.com"

\* Url::parse, as Client::request applies it: an absolute URL is needed
UrlParses(url) == url # <<>> /\ url[1] = BASE_URL

\* self.client().request(method, url): the draft, with neither headers nor
\* body; a URL that does not parse is kept as the builder's error
ClientRequest(method, url) ==
    [method  |-> method,
     url     |-> url,
     headers |-> {},
     body    |-> NoBody,
     err     |-> IF UrlParses(url) THEN NoErr ELSE ReqErr("builder")]

NoDraft == [method |-> "", url |-> <<>>, headers |-> {}, body |-> NoBody,
            err |-> NoErr]

HasHeader(req, name) == \E h \in req.headers : h[1] = name

\* RequestBuilder::json / ::form: serialize the payload into the body and
\* set Content-Type when none is set; a failed serialization becomes the
\* builder's error; a builder already in error is left alone
WithPayload(req, payload, ctype, kind, bytes) ==
    IF req.err # NoErr THEN req
    ELSE IF ~payload.ser THEN [req EXCEPT !.err = ReqErr("builder")]
    ELSE [req EXCEPT
            !.headers = IF HasHeader(req, "content-type") THEN @
                        ELSE @ \cup {<<"content-type", ctype>>},
            !.body    = [kind |-> kind, bytes |-> bytes]]

RequestJson(req, payload) ==
    WithPayload(req, payload, "application/json", "json", ToJson(payload.v))

RequestForm(req, payload) ==
    WithPayload(req, payload, "application/x-www-form-urlencoded", "form",
                ToForm(payload.v))

\* the pre-built reqwest::multipart::Form a caller hands to Body::Multipart
MultipartBytes == <<"--boundary", "part", "--boundary--">>

\* RequestBuilder::multipart
RequestMultipart(req) ==
    IF req.err # NoErr THEN req
    ELSE [req EXCEPT
            !.headers = @ \cup {<<"content-type", "multipart/form-data">>},
            !.body    = [kind |-> "multipart", bytes |-> MultipartBytes]]

\* the enum Body
BodyVariants == {"None", "Json", "Form", "Multipart"}

Bodies == {[variant |-> "None", payload |-> NoPayload],
           [variant |-> "Multipart", payload |-> NoPayload]}
          \cup [variant : {"Json", "Form"}, payload : Payloads]

\* the match on body as it would be if the arms with a body built the
\* request anew from the method and the URL
AttachBodyFreshDraft(request, body) ==
    LET fresh == [request EXCEPT !.headers = {}, !.body = NoBody]
    IN  CASE body.variant = "None"      -> request
          [] body.variant = "Json"      -> RequestJson(fresh, body.payload)
          [] body.variant = "Form"      -> RequestForm(fresh, body.payload)
          [] body.variant = "Multipart" -> RequestMultipart(fresh)

\* the match on body as it would be if a body were attached only to a draft
\* that has none yet
AttachBodyKeepsHookBody(request, body) ==
    IF request.body # NoBody THEN request
    ELSE CASE body.variant = "None"      -> request
           [] body.variant = "Json"      -> RequestJson(request, body.payload)
           [] body.variant = "Form"      -> RequestForm(request, body.payload)
           [] body.variant = "Multipart" -> RequestMultipart(request)

\* the match on body in Api::request
AttachBody(request, body) ==
    CASE body.variant = "None"      -> request
      [] body.variant = "Json"      -> RequestJson(request, body.payload)
      [] body.variant = "Form"      -> RequestForm(request, body.payload)
      [] body.variant = "Multipart" -> RequestMultipart(request)

----------------------------------------------------------------------------
(* Responses *)

Statuses == {200, 404}

StatusText(st) == CASE st = 200 -> "200" [] st = 404 -> "404"
                    [] st = 299 -> "299" [] OTHER -> ""

\* bodies the transport double returns: the encodings of T, one with the
\* fields in the other order, a truncated one, and an object of another shape
Malformed == <<"{", "id", ":">>

WrongShape == <<"{", "id", ":", "1", ",", "title", ":", "true", "}">>

Swapped == <<"{", "completed", ":", "true", ",", "id", ":", "1", "}">>

ServedBodies == {ToJson(v) : v \in [id : Ids, completed : {FALSE}]}
                \cup {Malformed, WrongShape, Swapped}

\* what the transport may answer to a request: a served body, or the
\* request's own body echoed back
Responses(req) == [status : Statuses, body : ServedBodies]
                  \cup {[status |-> 200, body |-> req.body.bytes]}

NoResponse == [status |-> 0, body |-> <<>>]

\* the synthetic response a post_response override may put in place
Substitute == [status |-> 299, body |-> ToJson([id |-> 0, completed |-> TRUE])]

\* errors RequestBuilder::send can fail with; under middleware any
\* middleware of the stack can fail with its own error as well
SendErrors(mw) ==
    IF mw THEN {ErrorFrom(ReqErr("request")),
                [variant |-> "Middleware", kind |-> "anyhow"]}
    ELSE {ReqErr("request")}

\* errors Response::text / ::bytes / ::json fail with while draining the body
BodyReadErrors == {ReqErr("body"), ReqErr("decode")}

\* the error Response::json fails with when the bytes do not deserialize
DecodeError == ReqErr("decode")

----------------------------------------------------------------------------
(* The Api trait: the hooks and the factory *)

\* a client type: api!(struct X) overrides new() only; a hand-written impl
\* overrides any of new, pre_request, post_response
Impls == [generated : {TRUE}, new : {"override"}, pre : {"default"},
          post : {"default"}]
         \cup [generated : {FALSE}, new : {"default", "override"},
               pre : {"default", "override"}, post : {"default", "override"}]

NoClient == [handle |-> "", cookie |-> ""]

\* what an overriding hook does in one invocation
NoChoice == [act |-> "identity", err |-> NoErr]

PreChoices(mw) == {[act |-> "auth", err |-> NoErr],
                   [act |-> "ctype", err |-> NoErr],
                   [act |-> "body", err |-> NoErr]}
                  \cup [act : {"fail"}, err : ClientError(mw)]

PostChoices == {"identity", "substitute", "capture"}

\* Api::pre_request, the default
PreRequestDefault(request) ==
    [ok |-> TRUE, request |-> request, err |-> NoErr]

\* an override of pre_request in the manner of the doc example: adds an
\* authorization header from the client's fields, or a Content-Type header,
\* or sets a body of its own, or fails with an error of the build's
\* ClientError type
PreRequestOverride(self, request, choice) ==
    CASE choice.act = "fail" ->
            [ok |-> FALSE, request |-> request, err |-> choice.err]
      [] choice.act = "auth" ->
            [ok |-> TRUE, err |-> NoErr,
             request |-> IF request.err # NoErr THEN request
                         ELSE [request EXCEPT !.headers =
                                 @ \cup {<<"authorization", self.cookie>>}]]
      [] choice.act = "ctype" ->
            [ok |-> TRUE, err |-> NoErr,
             request |-> IF request.err # NoErr THEN request
                         ELSE [request EXCEPT !.headers =
                                 @ \cup {<<"content-type", "text/plain">>}]]
      [] choice.act = "body" ->
            [ok |-> TRUE, err |-> NoErr,
             request |-> IF request.err # NoErr THEN request
                         ELSE [request EXCEPT !.body =
                                 [kind |-> "raw", bytes |-> <<"hook">>]]]
      [] OTHER -> PreRequestDefault(request)

PreRequest(im, self, request, choice) ==
    IF im.pre = "default" THEN PreRequestDefault(request)
    ELSE PreRequestOverride(self, request, choice)

\* Api::post_response as it would be if the default kept state of its own
PostResponseDefaultCaptures(self, response) ==
    [self |-> [self EXCEPT !.cookie = StatusText(response.status)],
     response |-> response]

\* Api::post_response, the default
PostResponseDefault(self, response) ==
    [self |-> self, response |-> response]

\* an override of post_response in the manner of the doc example: keeps a
\* cookie of the response in the client, or puts another response in place
PostResponseOverride(self, response, choice) ==
    CASE choice = "substitute" -> [self |-> self, response |-> Substitute]
      [] choice = "capture" ->
            [self |-> [self EXCEPT !.cookie = StatusText(response.status)],
             response |-> response]
      [] OTHER -> PostResponseDefault(self, response)

PostResponse(im, self, response, choice) ==
    IF im.post = "default" THEN PostResponseDefault(self, response)
    ELSE PostResponseOverride(self, response, choice)

\* Api::new, the default: unimplemented!()
TraitNew == [panic |-> TRUE, self |-> NoClient]

\* new() of api!(struct X): X(Client::new()); Client::new() panics when the
\* TLS backend or the resolver cannot be set up
StructNew(backendOk) ==
    IF backendOk
    THEN [panic |-> FALSE, self |-> [handle |-> "pool", cookie |-> ""]]
    ELSE [panic |-> TRUE, self |-> NoClient]

ApiNew(im, backendOk) ==
    IF im.new = "default" THEN TraitNew ELSE StructNew(backendOk)

----------------------------------------------------------------------------
(* Api::request, up to and from its one suspension point, send().await *)

\* Api::request as it would be without the `?` after pre_request
RequestStartIgnoresHookError(im, self, method, url, body, choice) ==
    LET draft == ClientRequest(method, url)
        pre   == PreRequest(im, self, draft, choice)
    IN  [sent |-> TRUE, err |-> NoErr, seen |-> draft,
         request |-> AttachBody(pre.request, body),
         trace |-> <<"draft", "pre_request", "attach", "send">>]

\* Api::request as it would be with the match on body moved above the hook
RequestStartAttachesFirst(im, self, method, url, body, choice) ==
    LET draft == AttachBody(ClientRequest(method, url), body)
        pre   == PreRequest(im, self, draft, choice)
    IN  IF ~pre.ok
        THEN [sent |-> FALSE, err |-> pre.err, seen |-> draft,
              request |-> NoDraft,
              trace |-> <<"draft", "attach", "pre_request", "return">>]
        ELSE [sent |-> TRUE, err |-> NoErr, seen |-> draft,
              request |-> pre.request,
              trace |-> <<"draft", "attach", "pre_request", "send">>]

\* pre_request on the fresh draft, `?`, then the body
RequestStart(im, self, method, url, body, choice) ==
    LET draft == ClientRequest(method, url)
        pre   == PreRequest(im, self, draft, choice)
    IN  IF ~pre.ok
        THEN [sent |-> FALSE, err |-> pre.err, seen |-> draft,
              request |-> NoDraft,
              trace |-> <<"draft", "pre_request", "return">>]
        ELSE [sent |-> TRUE, err |-> NoErr, seen |-> draft,
              request |-> AttachBody(pre.request, body),
              trace |-> <<"draft", "pre_request", "attach", "send">>]

\* RequestBuilder::send: a builder in error fails at once with that error
\* and nothing is transmitted; otherwise the transport answers or fails
Transmits(req) == req.err = NoErr

SendOk(req) == IF Transmits(req)
               THEN {[ok |-> TRUE, response |-> r, err |-> NoErr] :
                        r \in Responses(req)}
               ELSE {}

SendErr(mw, req) ==
    IF Transmits(req)
    THEN {[ok |-> FALSE, response |-> NoResponse, err |-> e] :
             e \in SendErrors(mw)}
    ELSE {[ok |-> FALSE, response |-> NoResponse, err |-> Lift(mw, req.err)]}

\* Api::request as it would be if it called post_response and dropped what
\* the hook returned
RequestFinishKeepsOriginal(im, self, out, choice) ==
    IF out.ok
    THEN LET post == PostResponse(im, self, out.response, choice)
         IN  [ok |-> TRUE, response |-> out.response, err |-> NoErr,
              self |-> post.self, trace |-> <<"post_response", "return">>]
    ELSE [ok |-> FALSE, response |-> NoResponse, err |-> out.err,
          self |-> self, trace |-> <<"return">>]

\* Api::request as it would be if post_response ran on every outcome of send
RequestFinishPostsOnError(im, self, out, choice) ==
    LET post == PostResponse(im, self, out.response, choice)
    IN  [ok |-> out.ok,
         response |-> IF out.ok THEN post.response ELSE NoResponse,
         err |-> out.err, self |-> post.self,
         trace |-> <<"post_response", "return">>]

\* .map(|r| self.post_response(r)) on the outcome of send
RequestFinish(im, self, out, choice) ==
    IF out.ok
    THEN LET post == PostResponse(im, self, out.response, choice)
         IN  [ok |-> TRUE, response |-> post.response, err |-> NoErr,
              self |-> post.self, trace |-> <<"post_response", "return">>]
    ELSE [ok |-> FALSE, response |-> NoResponse, err |-> out.err,
          self |-> self, trace |-> <<"return">>]

----------------------------------------------------------------------------
(* The api! macro: one arm per body kind and result kind *)

BodyKinds == {"None", "Json", "Form"}

ResultKinds == {"StatusCode", "String", "Bytes", "Json"}

Verbs == {"GET", "PUT"}

\* a declaration: fn name([request: Body<T>][, id: u32]) -> Result { VERB url }
Decls == [body : BodyKinds, result : ResultKinds, param : BOOLEAN,
          verb : Verbs]

\* the declaration's URL literal
Template(d) == IF d.param THEN <<"{BASE_URL}", "/todos/", "{id}">>
               ELSE <<"{BASE_URL}", "/todos">>

\* format!($url) with the identifiers in scope
Format(t, id) ==
    [i \in DOMAIN t |->
        CASE t[i] = "{BASE_URL}" -> BASE_URL
          [] t[i] = "{id}"       -> DisplayU32(id)
          [] OTHER               -> t[i]]

\* the extra parameters as the arm writes them into the signature:
\* `$name: $ty` in every arm but Json -> StatusCode, which writes `$name $ty`
ArmParams(d) ==
    IF ~d.param THEN <<>>
    ELSE IF d.body = "Json" /\ d.result = "StatusCode"
         THEN << <<"id", "u32">> >>
         ELSE << <<"id", ":", "u32">> >>

\* rustc's grammar for a function parameter: pattern `:` type
ParamParses(p) == Len(p) = 3 /\ p[2] = ":"

\* whether the arm ends in .map_err(reqwest_middleware::Error::from)
ArmMapErr(mw, d) ==
    /\ mw
    /\ \/ d.result = "Json"
       \/ d.body = "None" /\ d.result \in {"String", "Bytes"}

\* the error type of the arm's tail expression, and of its declared return
ArmErrType(mw, d) ==
    IF d.result = "StatusCode" \/ ArmMapErr(mw, d)
    THEN (IF mw THEN "reqwest_middleware::Error" ELSE "reqwest::Error")
    ELSE "reqwest::Error"

RetErrType(mw) == IF mw THEN "reqwest_middleware::Error" ELSE "reqwest::Error"

\* whether the method the arm expands to is accepted by the compiler
Compiles(mw, d) ==
    /\ \A i \in DOMAIN ArmParams(d) : ParamParses(ArmParams(d)[i])
    /\ ArmErrType(mw, d) = RetErrType(mw)

\* the arm as it would be if it passed Body::Form whatever the body kind
ArmBodyAlwaysForm(d, payload) ==
    IF d.body = "None" THEN [variant |-> "None", payload |-> NoPayload]
    ELSE [variant |-> "Form", payload |-> payload]

\* the Body the arm passes to self.request
ArmBody(d, payload) ==
    CASE d.body = "Json" -> [variant |-> "Json", payload |-> payload]
      [] d.body = "Form" -> [variant |-> "Form", payload |-> payload]
      [] OTHER           -> [variant |-> "None", payload |-> NoPayload]

\* the decoding the arm applies to the response
ArmDecode(d) ==
    CASE d.result = "StatusCode" -> "status"
      [] d.result = "String"     -> "text"
      [] d.result = "Bytes"      -> "bytes"
      [] d.result = "Json"       -> "json"
      [] OTHER                   -> "response"

----------------------------------------------------------------------------
(* Results *)

NoResult == [ok |-> FALSE, kind |-> "none", status |-> 0, bytes |-> <<>>,
             v |-> NoTodo, err |-> NoErr]

Failure(e) == [NoResult EXCEPT !.kind = "error", !.err = e]

OkStatus(st) == [NoResult EXCEPT !.ok = TRUE, !.kind = "status", !.status = st]

OkBody(kind, b) == [NoResult EXCEPT !.ok = TRUE, !.kind = kind, !.bytes = b]

OkJson(v) == [NoResult EXCEPT !.ok = TRUE, !.kind = "json", !.v = v]

OkResponse(r) == [NoResult EXCEPT !.ok = TRUE, !.kind = "response",
                                  !.status = r.status, !.bytes = r.body]

\* how draining the response body ends
ReadOutcomes == {[ok |-> TRUE, err |-> NoErr]}
                \cup [ok : {FALSE}, err : BodyReadErrors]

\* the arm's error conversion as it would be if it built an error of its own
ArmErrOpaque(mw, d, e) == Lift(mw, ReqErr("request"))

\* the arm's error conversion for what text / bytes / json return
ArmErr(mw, d, e) == IF ArmMapErr(mw, d) THEN ErrorFrom(e) ELSE e

\* res.status() as it would be behind error_for_status()
ResStatusChecked(response) ==
    IF response.status >= 400 THEN Failure(ReqErr("request"))
    ELSE OkStatus(response.status)

\* res.status()
ResStatus(response) == OkStatus(response.status)

\* the arm as it would be with .json().await.unwrap_or_default()
ResDecodeDefaulting(mw, d, response, read) ==
    IF ~read.ok THEN Failure(ArmErr(mw, d, read.err))
    ELSE CASE ArmDecode(d) = "text"  -> OkBody("text", response.body)
           [] ArmDecode(d) = "bytes" -> OkBody("bytes", response.body)
           [] OTHER -> OkJson(FromJson(response.body).v)

\* the arm as it would be with .json().await.unwrap()
ResDecodeUnwraps(mw, d, response, read) ==
    IF ~read.ok THEN Failure(ArmErr(mw, d, read.err))
    ELSE CASE ArmDecode(d) = "text"  -> OkBody("text", response.body)
           [] ArmDecode(d) = "bytes" -> OkBody("bytes", response.body)
           [] OTHER ->
                LET p == FromJson(response.body)
                IN  IF p.ok THEN OkJson(p.v)
                    ELSE [NoResult EXCEPT !.kind = "panic"]

\* res.text().await, res.bytes().await, res.json().await
ResDecode(mw, d, response, read) ==
    IF ~read.ok THEN Failure(ArmErr(mw, d, read.err))
    ELSE CASE ArmDecode(d) = "text"  -> OkBody("text", response.body)
           [] ArmDecode(d) = "bytes" -> OkBody("bytes", response.body)
           [] OTHER ->
                LET p == FromJson(response.body)
                IN  IF p.ok THEN OkJson(p.v)
                    ELSE Failure(ArmErr(mw, d, DecodeError))

----------------------------------------------------------------------------
(* The state machine: one client instance, used by one caller *)

NoDecl == [body |-> "None", result |-> "Response", param |-> FALSE,
           verb |-> ""]

NoOut == [ok |-> FALSE, response |-> NoResponse, err |-> NoErr]

\* the parties that hold the instance and call it
Callers == {"a", "b"}

\* request() and every generated method as they would be with `&self`: a
\* shared borrow is granted whoever else holds one
BorrowShared(holders) == TRUE

\* `&mut self` of request() and of every generated method: the borrow is
\* granted only while no other call borrows the instance
BorrowMut(holders) == holders = {}

NoCall == [entry     |-> "none",      \* "method" | "direct"
           caller    |-> "",
           decl      |-> NoDecl,
           id        |-> 0,
           method    |-> "",
           url       |-> <<>>,
           body      |-> [variant |-> "None", payload |-> NoPayload],
           choice    |-> NoChoice,    \* what pre_request did
           before    |-> NoClient,    \* the instance when the call began
           seen      |-> NoDraft,     \* the draft pre_request was given
           request   |-> NoDraft,     \* the request handed to send
           out       |-> NoOut,       \* how send ended
           post      |-> "identity",  \* what post_response did
           effective |-> NoResponse,  \* the response request() returned
           read      |-> [ok |-> TRUE, err |-> NoErr],
           failed    |-> "none",      \* the stage that failed
           raised    |-> NoErr]       \* the error that stage raised

\* URLs a caller of request() passes: an absolute one and a relative one
DirectUrls == {<<BASE_URL, "/todos">>, <<"/todos">>}

Init ==
    /\ feature \in [middleware : BOOLEAN]
    /\ impl \in Impls
    /\ pc = "init"
    /\ client = NoClient
    /\ call = NoCall
    /\ result = NoResult
    /\ trace = <<>>
    /\ wire = <<>>
    /\ owner = {}

\* X::new()
New ==
    /\ pc = "init"
    /\ \E backendOk \in BOOLEAN :
          /\ pc' = IF ApiNew(impl, backendOk).panic THEN "panicked"
                   ELSE "idle"
          /\ client' = ApiNew(impl, backendOk).self
    /\ UNCHANGED <<feature, impl, call, result, trace, wire, owner>>

\* self.request(method, url, body) up to send().await
Begin(who, entry, d, id, method, url, body, choice) ==
    LET st == RequestStart(impl, client, method, url, body, choice)
        c  == [NoCall EXCEPT !.entry = entry, !.caller = who, !.decl = d,
                 !.id = id,
                 !.method = method, !.url = url, !.body = body,
                 !.choice = choice, !.before = client, !.seen = st.seen,
                 !.request = st.request]
    IN  /\ trace' = st.trace
        /\ wire' = IF st.sent /\ Transmits(st.request) THEN <<st.request>>
                   ELSE <<>>
        /\ IF st.sent
           THEN /\ pc' = "sending"
                /\ call' = c
                /\ result' = NoResult
                /\ owner' = owner \cup {who}
           ELSE /\ pc' = "done"
                /\ call' = [c EXCEPT !.failed = "pre_request",
                                     !.raised = st.err]
                /\ result' = Failure(st.err)
                /\ owner' = owner
        /\ UNCHANGED <<feature, impl, client>>

HookChoices == IF impl.pre = "default" THEN {NoChoice}
               ELSE PreChoices(feature.middleware)

\* a caller may start a call once the instance exists and the value of its
\* last call has been taken, if the borrow of the instance is granted
MayCall == /\ pc \in {"idle", "sending", "reading"}
           /\ BorrowMut(owner)

\* a method the api! macro generated is called
Invoke ==
    /\ MayCall
    /\ \E who \in Callers \ owner, d \in Decls, id \in Ids,
          payload \in Payloads, ch \in HookChoices :
          /\ Compiles(feature.middleware, d)
          /\ LET arg == IF d.param THEN id ELSE 0
                 pl  == IF d.body = "None" THEN NoPayload ELSE payload
             IN  Begin(who, "method", d, arg, d.verb,
                       Format(Template(d), id), ArmBody(d, pl), ch)

\* Api::request is called as it is (it is public), with any Body
Direct ==
    /\ MayCall
    /\ \E who \in Callers \ owner, method \in Verbs, url \in DirectUrls,
          body \in Bodies, ch \in HookChoices :
          Begin(who, "direct", [NoDecl EXCEPT !.body = body.variant,
                                              !.verb = method],
                0, method, url, body, ch)

\* the rest of Api::request and of the generated method, once send has ended
Resume(out, choice) ==
    LET fin == RequestFinish(impl, client, out, choice)
        c   == [call EXCEPT !.out = out, !.post = choice,
                            !.effective = fin.response]
    IN  /\ client' = fin.self
        /\ trace' = trace \o fin.trace
        /\ owner' = IF fin.ok /\ call.entry = "method"
                        /\ ArmDecode(call.decl) # "status"
                     THEN owner ELSE owner \ {call.caller}
        /\ IF ~fin.ok
           THEN /\ pc' = "done"
                /\ call' = [c EXCEPT !.failed = "send", !.raised = out.err]
                /\ result' = Failure(fin.err)
           ELSE IF call.entry = "direct"
           THEN /\ pc' = "done"
                /\ call' = c
                /\ result' = OkResponse(fin.response)
           ELSE IF ArmDecode(call.decl) = "status"
           THEN /\ pc' = "done"
                /\ call' = c
                /\ result' = ResStatus(fin.response)
           ELSE /\ pc' = "reading"
                /\ call' = c
                /\ result' = NoResult
        /\ UNCHANGED <<feature, impl, wire>>

PostHookChoices == IF impl.post = "default" THEN {"identity"} ELSE PostChoices

\* send().await ends with a response
SendReturnsOk ==
    /\ pc = "sending"
    /\ \E out \in SendOk(call.request), ch \in PostHookChoices :
          Resume(out, ch)

\* send().await ends with an error
SendReturnsErr ==
    /\ pc = "sending"
    /\ \E out \in SendErr(feature.middleware, call.request) :
          Resume(out, "identity")

\* text().await / bytes().await / json().await ends; a panic in the arm
\* would unwind out of the call
ReadReturns ==
    /\ pc = "reading"
    /\ \E read \in ReadOutcomes :
          LET r == ResDecode(feature.middleware, call.decl, call.effective,
                             read)
          IN  /\ result' = r
              /\ call' = [call EXCEPT
                            !.read   = read,
                            !.failed = IF r.ok \/ r.kind = "panic" THEN "none"
                                       ELSE IF read.ok THEN "decode"
                                       ELSE "body",
                            !.raised = IF r.ok THEN NoErr
                                       ELSE IF read.ok THEN DecodeError
                                       ELSE read.err]
              /\ pc' = IF r.kind = "panic" THEN "panicked" ELSE "done"
    /\ owner' = owner \ {call.caller}
    /\ UNCHANGED <<feature, impl, client, trace, wire>>

\* the caller takes the returned value and is free to call again
Release ==
    /\ pc = "done"
    /\ pc' = "idle"
    /\ call' = NoCall
    /\ result' = NoResult
    /\ trace' = <<>>
    /\ wire' = <<>>
    /\ UNCHANGED <<feature, impl, client, owner>>

Next == \/ New
        \/ Invoke
        \/ Direct
        \/ SendReturnsOk
        \/ SendReturnsErr
        \/ ReadReturns
        \/ Release

Spec == Init /\ [][Next]_vars

----------------------------------------------------------------------------
(* Properties *)

InTrace(e) == \E i \in DOMAIN trace : trace[i] = e

\* a call has entered the pipeline and its hook failed
HookFailed == /\ call.entry # "none"
              /\ impl.pre = "override"
              /\ call.choice.act = "fail"

\* C1: when pre_request returns an error the call is over at once: nothing
\* reached the transport, send and post_response did not run, and the call
\* returned the very error the hook produced, whatever the Body variant
C1_HookErrorAborts ==
    HookFailed =>
        /\ pc = "done"
        /\ wire = <<>>
        /\ ~InTrace("send")
        /\ ~InTrace("post_response")
        /\ result = Failure(call.choice.err)
        /\ client = call.before

C1_Witness ==
    /\ HookFailed
    /\ pc = "done"
    /\ call.body.variant = "Multipart"
    /\ result.err = call.choice.err
    /\ result.err.kind = "decode"

\* the response decoding has to work on, by what the hooks of the call did
EffectiveOf(c) ==
    IF impl.post = "override" /\ c.post = "substitute" THEN Substitute
    ELSE c.out.response

\* C2: after a successful send the value a call returns is decoded from what
\* post_response returned: from the substitute when the hook substituted one
C2_DecodesPostResponse ==
    (pc = "done" /\ call.out.ok /\ result.ok) =>
        CASE result.kind = "status"   ->
                result.status = EffectiveOf(call).status
          [] result.kind = "response" ->
                /\ result.status = EffectiveOf(call).status
                /\ result.bytes = EffectiveOf(call).body
          [] result.kind \in {"text", "bytes"} ->
                result.bytes = EffectiveOf(call).body
          [] result.kind = "json" ->
                FromJson(EffectiveOf(call).body) = [ok |-> TRUE, v |-> result.v]
          [] OTHER -> FALSE

C2_Witness ==
    /\ pc = "done"
    /\ call.out.ok
    /\ call.post = "substitute"
    /\ call.out.response.body = Malformed
    /\ result.ok
    /\ result.kind = "json"
    /\ result.v = [id |-> 0, completed |-> TRUE]

\* C3: when send fails the call returns that error as it is, post_response
\* does not run and the client is as it was before the call; post_response
\* runs only after a send that succeeded
C3_SendErrorPassesThrough ==
    /\ call.out.err # NoErr =>
          /\ pc = "done"
          /\ result = Failure(call.out.err)
          /\ ~InTrace("post_response")
          /\ client = call.before
    /\ InTrace("post_response") => call.out.ok /\ InTrace("send")

C3_Witness ==
    /\ pc = "done"
    /\ call.out.err # NoErr
    /\ Transmits(call.request)
    /\ impl.post = "override"
    /\ client.cookie = "404"
    /\ result.err = call.out.err

\* C4: a method declared -> StatusCode returns Ok with the status of the
\* effective response whenever send succeeded, whatever the status and the
\* body, and it never reads the body
C4_StatusCodeAlwaysOk ==
    (call.entry = "method" /\ call.decl.result = "StatusCode") =>
        /\ pc # "reading"
        /\ call.read = NoCall.read
        /\ call.out.ok =>
              /\ pc = "done"
              /\ result = OkStatus(EffectiveOf(call).status)

C4_Witness ==
    /\ pc = "done"
    /\ call.entry = "method"
    /\ call.decl.result = "StatusCode"
    /\ call.out.ok
    /\ call.effective.body = Malformed
    /\ result.ok
    /\ result.status = 404

\* the JSON texts that stand for a value of T
JsonTexts(v) ==
    {ToJson(v),
     <<"{", "completed", ":", DisplayBool(v.completed), ",",
       "id", ":", DisplayU32(v.id), "}">>}

\* C5: a method declared -> Json<T> whose body was read returns the value
\* the body stands for when it stands for one, and otherwise returns a
\* decode error: never a default or partly filled T, never a panic
C5_JsonDecodeOrError ==
    (/\ call.entry = "method" /\ call.decl.result = "Json"
     /\ call.out.ok /\ pc \in {"done", "panicked"}) =>
        /\ pc = "done"
        /\ call.read.ok =>
              IF \E v \in Todos : EffectiveOf(call).body \in JsonTexts(v)
              THEN /\ result.ok
                   /\ result.kind = "json"
                   /\ EffectiveOf(call).body \in JsonTexts(result.v)
              ELSE /\ ~result.ok
                   /\ result.kind = "error"
                   /\ result.err.kind = "decode"
                   /\ result.v = NoTodo

C5_Witness ==
    /\ pc = "done"
    /\ call.entry = "method"
    /\ call.decl.result = "Json"
    /\ call.out.ok
    /\ call.read.ok
    /\ call.effective.body = WrongShape
    /\ ~result.ok
    /\ result.err.kind = "decode"

Stages == {"pre_request", "send", "body", "decode"}

\* a reqwest::Error as a generated method of the build returns it
Returned(e) ==
    IF feature.middleware /\ e.variant = "reqwest"
    THEN [variant |-> "Reqwest", kind |-> e.kind]
    ELSE e

\* the errors a call can return when the given stage fails
StageErrors(stage) ==
    CASE stage = "pre_request" -> ClientError(feature.middleware)
      [] stage = "send"        ->
            SendErrors(feature.middleware) \cup {Returned(ReqErr("builder"))}
      [] stage = "body"        -> {Returned(e) : e \in BodyReadErrors}
      [] stage = "decode"      -> {Returned(DecodeError)}

\* C6 as stated: the error a call returns tells which of the four stages
\* failed, i.e. no other stage can fail with the same error
C6_StageToldByError ==
    (pc = "done" /\ call.failed # "none") =>
        \A st \in Stages \ {call.failed} : result.err \notin StageErrors(st)

\* C6 as amended: a failed call returns one ClientError of the build, the
\* error its failing stage raised handed on as it is (behind Reqwest(..)
\* under middleware); a decode failure has kind decode; nothing more is
\* recorded about the stage
C6_ErrorHandedOn ==
    (pc = "done" /\ call.failed # "none") =>
        /\ ~result.ok
        /\ result.kind = "error"
        /\ result.err \in ClientError(feature.middleware)
        /\ result.err = Returned(call.raised)
        /\ call.failed = "pre_request" => result.err = call.choice.err
        /\ call.failed = "send" => result.err = call.out.err
        /\ call.failed = "body" => result.err.kind = call.read.err.kind
        /\ call.failed = "decode" => result.err.kind = "decode"

C6_Witness ==
    /\ pc = "done"
    /\ call.failed = "body"
    /\ feature.middleware
    /\ call.decl.body = "None"
    /\ call.decl.result = "String"
    /\ result.err = [variant |-> "Reqwest", kind |-> "body"]

\* C7 as stated: no operation, new() included, ends in a panic
C7_NothingPanics == pc # "panicked"

\* C7 as amended: only new() can panic, before any instance exists, and the
\* default new() always does; every failure of request() and of a generated
\* method is the returned value of that call
C7_OnlyNewPanics ==
    /\ pc = "panicked" =>
          /\ client = NoClient
          /\ call = NoCall
    /\ impl.new = "default" => pc \in {"init", "panicked"}
    /\ call.failed # "none" =>
          /\ pc = "done"
          /\ result = Failure(result.err)
          /\ result.err # NoErr

C7_Witness ==
    /\ pc = "done"
    /\ call.failed = "decode"
    /\ call.effective.body = Malformed
    /\ result = Failure(result.err)
    /\ impl.new = "override"

\* the body kind a Body variant puts on the request
KindOf(variant) ==
    CASE variant = "Json"      -> "json"
      [] variant = "Form"      -> "form"
      [] variant = "Multipart" -> "multipart"
      [] OTHER                 -> "none"

\* a call whose body can be attached: a Body other than None, a payload that
\* serializes, a URL that parses
Attachable ==
    /\ call.entry # "none"
    /\ call.body.variant # "None"
    /\ call.body.payload.ser
    /\ UrlParses(call.url)

\* C8 as stated: the draft pre_request is given has the call's body on it
C8_HookSeesBody ==
    Attachable => call.seen.body.kind = KindOf(call.body.variant)

\* C8 as amended: the draft pre_request is given has the method and the URL
\* and neither headers nor body; the body is put on the draft pre_request
\* returned, for Json, Form and Multipart alike
C8_BodyAfterHook ==
    /\ call.entry # "none" =>
          /\ call.seen.method = call.method
          /\ call.seen.url = call.url
          /\ call.seen.headers = {}
          /\ call.seen.body = NoBody
    /\ (Attachable /\ ~HookFailed) =>
          /\ call.request.body.kind = KindOf(call.body.variant)
          /\ wire = <<call.request>>

C8_Witness ==
    /\ pc = "sending"
    /\ Attachable
    /\ call.body.variant = "Multipart"
    /\ call.choice.act = "auth"
    /\ call.seen.body = NoBody
    /\ call.request.body.kind = "multipart"
    /\ call.request.headers # {<<"content-type", "multipart/form-data">>}

DefaultHooks == impl.pre = "default" /\ impl.post = "default"

\* C9: with neither hook overridden the request sent is the draft of
\* (method, url) with the body attached per the Body variant, the response
\* returned is the transport's, and the instance stays as new() made it
C9_DefaultsAreIdentity ==
    DefaultHooks =>
        /\ call.entry # "none" =>
              /\ call.request =
                    AttachBody([method |-> call.method, url |-> call.url,
                                headers |-> {}, body |-> NoBody,
                                err |-> IF UrlParses(call.url) THEN NoErr
                                        ELSE ReqErr("builder")],
                               call.body)
              /\ wire = IF call.request.err = NoErr THEN <<call.request>>
                        ELSE <<>>
              /\ client = call.before
        /\ call.out.ok => call.effective = call.out.response
        /\ (call.entry = "direct" /\ pc = "done" /\ call.out.ok) =>
              result = OkResponse(call.out.response)
        /\ pc \notin {"init", "panicked"} =>
              client = [handle |-> "pool", cookie |-> ""]

C9_Witness ==
    /\ DefaultHooks
    /\ pc = "done"
    /\ call.entry = "direct"
    /\ call.body.variant = "Form"
    /\ call.out.ok
    /\ call.out.response.status = 404
    /\ result = OkResponse(call.out.response)
    /\ client.handle = "pool"

\* C10: every declaration, of any body kind and result kind, with or without
\* an extra URL parameter, yields a method, and a call of it formats the URL
\* from its arguments, passes the matching Body and the declared verb to
\* request(), and decodes the response the matching way
C10_EveryArmWorks ==
    /\ pc = "idle" => \A d \in Decls : Compiles(feature.middleware, d)
    /\ call.entry = "method" =>
          /\ call.method = call.decl.verb
          /\ call.url = IF call.decl.param
                        THEN <<BASE_URL, "/todos/", DisplayU32(call.id)>>
                        ELSE <<BASE_URL, "/todos">>
          /\ call.body.variant = call.decl.body
          /\ (pc = "done" /\ result.ok) =>
                result.kind = CASE call.decl.result = "StatusCode" -> "status"
                                [] call.decl.result = "String"     -> "text"
                                [] call.decl.result = "Bytes"      -> "bytes"
                                [] call.decl.result = "Json"       -> "json"

\* a finished call of a Json<T> -> Json<T> method, with default hooks, whose
\* payload went out and came back as the response body
Echoed ==
    /\ pc = "done"
    /\ DefaultHooks
    /\ call.entry = "method"
    /\ call.decl.body = "Json" /\ call.decl.result = "Json"
    /\ call.body.payload.ser
    /\ wire # <<>>
    /\ call.out.ok
    /\ call.out.response.body = wire[1].body.bytes
    /\ call.read.ok

\* C11: round trip: a Json<T> -> Json<T> method called with v against a
\* transport that echoes the request body returns Ok(v)
C11_JsonRoundTrip ==
    /\ Echoed => result = OkJson(call.body.payload.v)
    /\ (/\ pc = "sending" /\ DefaultHooks /\ call.entry = "method"
        /\ call.decl.body = "Json" /\ call.body.payload.ser) =>
          /\ wire # <<>>
          /\ <<"content-type", "application/json">> \in wire[1].headers
          /\ wire[1].body.kind = "json"
          /\ FromJson(wire[1].body.bytes) =
                [ok |-> TRUE, v |-> call.body.payload.v]

C11_Witness ==
    /\ Echoed
    /\ call.body.payload.v = [id |-> MaxId, completed |-> TRUE]
    /\ call.out.response.status = 200
    /\ result.ok
    /\ result.v = [id |-> MaxId, completed |-> TRUE]

\* the header the hook of the call put on the draft
HookHeader ==
    IF call.choice.act = "auth" THEN <<"authorization", call.before.cookie>>
    ELSE <<"content-type", "text/plain">>

\* a call whose overriding pre_request added a header and returned Ok
HookAddedHeader ==
    /\ call.entry # "none"
    /\ impl.pre = "override"
    /\ call.choice.act \in {"auth", "ctype"}

\* C12: when pre_request adds a header and returns Ok, the request the
\* transport sees carries that header, whatever the Body variant: attaching
\* the body takes nothing away from the headers the hook set
C12_HookHeaderReachesTransport ==
    HookAddedHeader =>
        /\ (UrlParses(call.url) /\ call.body.payload.ser) => wire # <<>>
        /\ wire # <<>> =>
              /\ Len(wire) = 1
              /\ HookHeader \in wire[1].headers
              /\ wire[1] = call.request

C12_Witness ==
    /\ HookAddedHeader
    /\ pc = "sending"
    /\ call.entry = "method"
    /\ call.body.variant = "Form"
    /\ call.choice.act = "auth"
    /\ client.cookie = "200"
    /\ wire # <<>>
    /\ wire[1].headers = {<<"authorization", "200">>,
                          <<"content-type",
                            "application/x-www-form-urlencoded">>}

\* the steps of the pipeline in the order of Api::request; "return" ends
\* the call after whichever step was its last
PipelineSteps == <<"draft", "pre_request", "attach", "send", "post_response">>

Rank(e) ==
    CASE e = "draft"         -> 1
      [] e = "pre_request"   -> 2
      [] e = "attach"        -> 3
      [] e = "send"          -> 4
      [] e = "post_response" -> 5
      [] e = "return"        -> 6
      [] OTHER               -> 0

StepsOf(t) == SelectSeq(t, LAMBDA e : e # "return")

\* the draft the hook of the call handed back
HookDraft == PreRequest(impl, call.before, call.seen, call.choice).request

\* C13: in every call each event happens at most once and in the order
\* draft, pre_request, attach, send, post_response, return; the steps taken
\* before the return are a prefix of the five steps (one send at most, no
\* retry); Body::None sends the draft pre_request returned as it is, and a
\* Json, Form or Multipart body replaces a body pre_request had set
C13_PipelineOrder ==
    /\ \A i, j \in DOMAIN trace :
          i < j => (Rank(trace[i]) > 0 /\ Rank(trace[i]) < Rank(trace[j]))
    /\ StepsOf(trace) = SubSeq(PipelineSteps, 1, Len(StepsOf(trace)))
    /\ Len(wire) <= 1
    /\ pc = "sending" => ~InTrace("return")
    /\ pc \in {"reading", "done"} => trace[Len(trace)] = "return"
    /\ (call.entry # "none" /\ ~HookFailed) =>
          /\ InTrace("send")
          /\ wire = IF call.request.err = NoErr THEN <<call.request>>
                    ELSE <<>>
          /\ call.body.variant = "None" => call.request = HookDraft
          /\ Attachable =>
                /\ call.request.body.kind = KindOf(call.body.variant)
                /\ call.request.body.bytes # HookDraft.body.bytes
                /\ call.request.headers \ HookDraft.headers \subseteq
                      {h \in call.request.headers : h[1] = "content-type"}
                /\ HookDraft.headers \subseteq call.request.headers

C13_Witness ==
    /\ pc = "done"
    /\ impl.pre = "override"
    /\ call.choice.act = "body"
    /\ call.body.variant = "Json"
    /\ HookDraft.body.kind = "raw"
    /\ call.request.body.kind = "json"
    /\ trace = PipelineSteps \o <<"return">>
    /\ Len(wire) = 1

\* C14: two calls on one instance never overlap: while a call is between
\* its start and its return (decoding included) it alone borrows the
\* instance, so nothing changes the instance between a call's pre_request
\* and its own post_response, and pre_request works on the state the earlier
\* calls' post_response left
C14_CallsNeverOverlap ==
    /\ Cardinality(owner) <= 1
    /\ pc \in {"sending", "reading"} => owner = {call.caller}
    /\ pc \in {"init", "idle", "done", "panicked"} => owner = {}
    /\ pc = "sending" =>
          /\ client = call.before
          /\ (impl.pre = "override" /\ call.choice.act = "auth"
              /\ call.request.err = NoErr) =>
                <<"authorization", client.cookie>> \in call.request.headers
    /\ pc = "reading" =>
          client = PostResponse(impl, call.before, call.out.response,
                                call.post).self

C14_Witness ==
    /\ pc = "sending"
    /\ owner = {"b"}
    /\ impl.post = "override"
    /\ call.choice.act = "auth"
    /\ client.cookie = "404"
    /\ <<"authorization", "404">> \in call.request.headers

====
